---- MODULE Spec2Model ----
(***************************************************************************)
(* Instant-runoff voting (irv.py): the VoteTable operations as operators   *)
(* and the instant_runoff driver as a state machine.                       *)
(*                                                                         *)
(* Python 2 semantics are kept: N_votes/2 is integer division, None sorts  *)
(* before every integer, lists and tuples compare lexicographically, and   *)
(* zip/map build lists.  Sequences are 1-based here; the code's 0-based    *)
(* indices (loser_index, names.index) are kept 0-based in the state and    *)
(* shifted where they are used.                                            *)
(***************************************************************************)
EXTENDS Integers, Sequences, FiniteSets, TLC

\* ------------------------------------------------------------------ bounds
\* Largest number of ballots of the exhaustively enumerated vote files.
MaxBallots == 2
\* Largest raw preference value of the single-ballot vote files with gaps.
MaxRaw == 5

\* Largest number of ballots of the vote files of four candidates whose
\* tables the eliminations are applied to.
MaxPathBallots == 1

\* The candidate names a vote file's header may list, in string order.
AllNames == <<"A", "B", "C">>

\* The header of the vote files of four candidates.
WideNames == <<"A", "B", "C", "D">>

\* ------------------------------------------------------------ Python values
\* None among integers (a ballot's abstention).  Ballot values are positive,
\* so -1 is free to stand for it.
None == -1
\* None where a name is expected (compute_winner's "no winner").
NoName == "None"

\* Python 2 ordering of ballot entries: None is smaller than every integer.
PyLess(a, b) == IF a = None THEN b # None ELSE b # None /\ a < b

\* Python's comparison of two lists or tuples of ballot entries / counts.
LexLess(a, b) ==
    \/ \E k \in 1..Len(a) :
          /\ k <= Len(b)
          /\ \A j \in 1..(k - 1) : a[j] = b[j]
          /\ PyLess(a[k], b[k])
    \/ /\ Len(a) < Len(b)
       /\ \A j \in 1..Len(a) : a[j] = b[j]

\* Python's comparison of two names (strings over the header's alphabet).
NameOrd(s) == CHOOSE i \in 1..Len(WideNames) : WideNames[i] = s
NameLess(a, b) == NameOrd(a) < NameOrd(b)

\* sum(list)
RECURSIVE Sum(_)
Sum(s) == IF Len(s) = 0 THEN 0 ELSE s[1] + Sum(Tail(s))

\* The position a slice bound i denotes in a list of length n: a negative
\* bound counts from the end, and the result is clipped to 0..n.
SliceBound(i, n) ==
    IF i < 0 THEN (IF i + n < 0 THEN 0 ELSE i + n)
    ELSE IF i > n THEN n ELSE i

\* list[:i] and list[i:]
SliceTo(list, i) == SubSeq(list, 1, SliceBound(i, Len(list)))
SliceFrom(list, i) == SubSeq(list, SliceBound(i, Len(list)) + 1, Len(list))

\* list[i] raises IndexError
PyIndexError(list, i) == i >= Len(list) \/ i < -Len(list)

\* list[:i] + list[i+1:]
WithoutIndex(list, i) == SliceTo(list, i) \o SliceFrom(list, i + 1)

\* tuple.index(x): 0-based position of the first element equal to x
IndexOf(list, x) ==
    (CHOOSE p \in 1..Len(list) :
        list[p] = x /\ \A q \in 1..(p - 1) : list[q] # x) - 1

\* zip(*rows): transpose of a rectangular list of rows with ncols columns
Transpose(rows, ncols) ==
    [c \in 1..ncols |-> [r \in 1..Len(rows) |-> rows[r][c]]]

\* ---------------------------------------------------------------- read_votes
int_or_none(tok) == IF tok = 0 THEN None ELSE tok

\* ------------------------------------------------------------ get_rank_order
\* sorted((v, i) ...) puts the pair (v, i) after exactly the pairs smaller
\* than it; the pairs are pairwise different (i is), so the place of (v, i)
\* among the pairs with a value is 1 + the number of smaller such pairs.
PairLess(v1, i1, v2, i2) == PyLess(v1, v2) \/ (v1 = v2 /\ i1 < i2)

\* get_rank_order over the pairs sorted in reverse: the largest value first
get_rank_order_descending(list) ==
    [i \in 1..Len(list) |->
        IF list[i] = None THEN None
        ELSE 1 + Cardinality({j \in 1..Len(list) :
                    list[j] # None /\ PairLess(list[i], i, list[j], j)})]

\* get_rank_order that ranks over all the sorted pairs, None included
get_rank_order_counting_none(list) ==
    [i \in 1..Len(list) |->
        IF list[i] = None THEN None
        ELSE 1 + Cardinality({j \in 1..Len(list) :
                    PairLess(list[j], j, list[i], i)})]

get_rank_order(list) ==
    [i \in 1..Len(list) |->
        IF list[i] = None THEN None
        ELSE 1 + Cardinality({j \in 1..Len(list) :
                    list[j] # None /\ PairLess(list[j], j, list[i], i)})]

\* ------------------------------------------------------------------ VoteTable
reduce_ranks(votes) == [b \in 1..Len(votes) |-> get_rank_order(votes[b])]

votes_by_candidate(votes, ncand) == Transpose(votes, ncand)

\* counter[i] for i in 1..N_candidates, of one candidate's column
CountsOf(column, ncand) ==
    [r \in 1..ncand |-> Cardinality({b \in 1..Len(column) : column[b] = r})]

\* the order of a sort on the count vectors alone
KeyLess_counts_only(k1, k2) == LexLess(k1.counts, k2.counts)

\* the order of sorted(zip(counts, votes_by_candidate, names))
KeyLess(k1, k2) ==
    \/ LexLess(k1.counts, k2.counts)
    \/ /\ k1.counts = k2.counts
       /\ \/ LexLess(k1.column, k2.column)
          \/ /\ k1.column = k2.column
             /\ NameLess(k1.name, k2.name)

\* The place each key takes in sorted(keys): 1 + the number of keys that go
\* before it, which are the smaller keys and, the sort being stable, the
\* keys earlier in the list that are not greater (the equal ones).
SortPerm(keys) ==
    LET place(c) == 1 + Cardinality({d \in 1..Len(keys) :
                            \/ KeyLess(keys[d], keys[c])
                            \/ (d < c /\ ~KeyLess(keys[c], keys[d]))})
    IN  [p \in 1..Len(keys) |-> CHOOSE c \in 1..Len(keys) : place(c) = p]

\* zip(counts, self.votes_by_candidate(), self.names): one key per candidate
CandidateKeys(columns, names) ==
    [c \in 1..Len(names) |->
        [counts |-> CountsOf(columns[c], Len(names)),
         column |-> columns[c],
         name   |-> names[c]]]

\* the sort applied to names and counts, the ballot columns left in place
SortedTable_columns_in_place(keys, perm, nvotes) ==
    [names        |-> [p \in 1..Len(keys) |-> keys[perm[p]].name],
     votes        |-> Transpose([p \in 1..Len(keys) |-> keys[p].column], nvotes),
     counts       |-> [p \in 1..Len(keys) |-> keys[perm[p]].counts],
     N_votes      |-> nvotes,
     N_candidates |-> Len(keys)]

\* (counts, votes_by_candidate, names) = zip(*sorted(...)) and the three
\* assignments that follow it; perm[p] is the key that sorts to place p
SortedTable(keys, perm, nvotes) ==
    [names        |-> [p \in 1..Len(keys) |-> keys[perm[p]].name],
     votes        |-> Transpose([p \in 1..Len(keys) |-> keys[perm[p]].column], nvotes),
     counts       |-> [p \in 1..Len(keys) |-> keys[perm[p]].counts],
     N_votes      |-> nvotes,
     N_candidates |-> Len(keys)]

\* (Here and below an intermediate value is bound in a singleton set, so
\* that it is evaluated once wherever the operator is used, ENABLED included.)
SortKeys(keys, nvotes) ==
    CHOOSE t \in {SortedTable(keys, perm, nvotes) : perm \in {SortPerm(keys)}} : TRUE

update_counts(votes, names) ==
    CHOOSE t \in {SortKeys(keys, Len(votes)) :
                    keys \in {CandidateKeys(columns, names) :
                                columns \in {votes_by_candidate(votes, Len(names))}}} : TRUE

\* __init__ / maintain
VoteTable(votes, names) ==
    CHOOSE t \in {update_counts(dense, names) :
                    dense \in {reduce_ranks(raw) : raw \in {votes}}} : TRUE

copy(t) == VoteTable(t.votes, t.names)

\* compute_winner with the majority taken among the ballots that rank anyone
compute_winner_among_voting(t) ==
    IF t.counts[t.N_candidates][1] >
          Cardinality({b \in 1..t.N_votes :
                          \E p \in 1..t.N_candidates : t.votes[b][p] # None}) \div 2
    THEN t.names[t.N_candidates]
    ELSE NoName

\* compute_winner by plurality: any first-place vote makes the strongest win
compute_winner_plurality(t) ==
    IF t.counts[t.N_candidates][1] > 0
    THEN t.names[t.N_candidates]
    ELSE NoName

\* compute_winner with >= in place of >
compute_winner_at_least_half(t) ==
    IF t.counts[t.N_candidates][1] >= t.N_votes \div 2
    THEN t.names[t.N_candidates]
    ELSE NoName

compute_winner(t) ==
    IF t.counts[t.N_candidates][1] > t.N_votes \div 2
    THEN t.names[t.N_candidates]
    ELSE NoName

\* check_tied without the all-zeros exception
check_tied_counts_equal_only(t) ==
    t.counts[t.N_candidates] = t.counts[t.N_candidates - 1]

check_tied(t) ==
    LET counts_equal   == t.counts[t.N_candidates] = t.counts[t.N_candidates - 1]
        counts_nonzero == Sum(t.counts[t.N_candidates]) > 0
    IN  counts_equal /\ counts_nonzero

\* with_candidate_eliminated that drops nothing: the table rebuilt as it is
with_candidate_eliminated_nobody(t, index) == VoteTable(t.votes, t.names)

\* with_candidate_eliminated that re-tallies without renormalizing the ballots
with_candidate_eliminated_no_reduce(t, index) ==
    update_counts(Transpose(WithoutIndex(votes_by_candidate(t.votes, t.N_candidates), index),
                            t.N_votes),
                  WithoutIndex(t.names, index))

with_candidate_eliminated(t, index) ==
    CHOOSE u \in {VoteTable(Transpose(new_votes, t.N_votes), WithoutIndex(t.names, index)) :
                    new_votes \in {WithoutIndex(votes_by_candidate(t.votes, t.N_candidates),
                                                index)}} : TRUE

\* The operations that raise instead of returning.
\* self.counts[-1] has no element to take
compute_winner_raises(t) == PyIndexError(t.counts, -1)

\* self.counts[-1] == self.counts[-2] has no second element to take
check_tied_raises(t) == PyIndexError(t.counts, -1) \/ PyIndexError(t.counts, -2)

\* (counts, votes_by_candidate, names) = zip(*sorted(zip(...))) has nothing to
\* unpack when no candidate or no column is left: ValueError
update_counts_raises(votes, names) ==
    Len(names) = 0 \/ Len(votes) = 0 \/ Len(votes[1]) = 0

\* the VoteTable built at the end of with_candidate_eliminated raises
with_candidate_eliminated_raises(t, index) ==
    update_counts_raises(
        Transpose(WithoutIndex(votes_by_candidate(t.votes, t.N_candidates), index),
                  t.N_votes),
        WithoutIndex(t.names, index))

\* map(int_or_none, line.split())
RawBallot(line) == [c \in 1..Len(line) |-> int_or_none(line[c])]

read_votes(file) ==
    VoteTable([b \in 1..Len(file.lines) |-> RawBallot(file.lines[b])], file.names)

\* -------------------------------------------------------------- print_ranking
PLACES == <<"1st", "2nd", "3rd", "4th", "5th", "6th", "7th", "8th", "9th", "10th">>

\* zip(ranking, PLACES)
print_ranking(rk) ==
    [i \in 1..(IF Len(rk) < Len(PLACES) THEN Len(rk) ELSE Len(PLACES)) |->
        [place |-> PLACES[i], candidate |-> rk[i]]]

\* ------------------------------------------------------------------ the state
VARIABLES
    vote_file,              \* the input: [names, lines] (tokens, 0 = abstain)
    is_automated,
    table,                  \* the working table
    full_table,             \* the round's snapshot
    ranking,
    ineligible_candidates,
    N,
    rank,                   \* the for loop's position, 0-based
    winner,
    unlucky_soul,
    ineligibility_found,
    loser_index,
    output,                 \* what print_ranking printed
    pc

vars == <<vote_file, is_automated, table, full_table, ranking,
          ineligible_candidates, N, rank, winner, unlucky_soul,
          ineligibility_found, loser_index, output, pc>>

\* ------------------------------------------------------------------ the inputs
\* One line of a vote file for ncand candidates: 0 or a positive value up to
\* maxv per candidate, the positive values pairwise different.
BallotLines(ncand, maxv) ==
    {l \in [1..ncand -> 0..maxv] :
        \A i, j \in 1..ncand : (i # j /\ l[i] # 0) => l[i] # l[j]}

\* The election of the end-to-end scenario: A, B, C and five full ballots.
ScenarioFile ==
    [names |-> AllNames,
     lines |-> << <<1, 2, 3>>, <<1, 3, 2>>, <<2, 1, 3>>, <<3, 1, 2>>, <<2, 3, 1>> >>]

\* An election whose two weakest candidates, A and C, have the same count
\* vector while the strongest, B, has another.
TieBreakFile ==
    [names |-> AllNames,
     lines |-> << <<0, 1, 2>>, <<1, 2, 0>>, <<2, 3, 1>> >>]

\* The lines that are dense already: the positive values are exactly 1..k.
DenseLines(ncand) ==
    {l \in BallotLines(ncand, ncand) :
        \A v \in 2..ncand :
            (\E i \in 1..ncand : l[i] = v) => \E i \in 1..ncand : l[i] = v - 1}

\* The ballot lines of the vote files read, for a header of ncand names:
\* every file of up to MaxBallots dense lines, every one-line file with raw
\* values up to MaxRaw (gaps in the raw values), the scenario, and the
\* election with the tie at the weak end.
LineLists(ncand) ==
    UNION {[1..m -> DenseLines(ncand)] : m \in 1..MaxBallots}
    \cup [1..1 -> BallotLines(ncand, MaxRaw)]
    \cup (IF ncand = Len(AllNames)
          THEN {ScenarioFile.lines, TieBreakFile.lines}
          ELSE {})

Init ==
    /\ \E n \in 1..Len(AllNames) : \E ls \in LineLists(n) :
          /\ vote_file = [names |-> SubSeq(AllNames, 1, n), lines |-> ls]
          /\ table = read_votes([names |-> SubSeq(AllNames, 1, n), lines |-> ls])
          /\ N = n
    /\ full_table = table
    /\ is_automated \in BOOLEAN
    /\ ranking = << >>
    /\ ineligible_candidates = << >>
    /\ rank = 0
    /\ winner = NoName
    /\ unlucky_soul = NoName
    /\ ineligibility_found = FALSE
    /\ loser_index = 0
    /\ output = << >>
    /\ pc = "for"

\* ------------------------------------------------------------- instant_runoff
\* the automatic choice taken from the strong end of the sorted roster
auto_loser_index_strongest(t) == t.N_candidates - 1

\* "automatically choose lowest one when lex. sorted": loser_index = 0
auto_loser_index(t) == 0

\* if ineligibility_found: winner = unlucky_soul
round_winner(found, soul, w) == IF found THEN soul ELSE w

\* ranking.append(winner) run in both branches
round_ranking_always_append(found, rk, w) == Append(rk, w)

\* else: ranking.append(winner)
round_ranking(found, rk, w) == IF found THEN rk ELSE Append(rk, w)

\* "Determined that %s is rank %d" % (winner, rank+1): the rank the driver
\* announces for the winner of the round at the loop position rank
announced_rank(r) == r + 1

\* the table rebuilt after every round, the last one too
more_ranks_always(r, n) == TRUE

\* if rank != N-1: another round follows
more_ranks(r, n) == r # n - 1

\* the next round built from the table at hand, not from the snapshot
next_round_table_from_working(full, w) ==
    with_candidate_eliminated(table, IndexOf(table.names, w))

\* the next round built by dropping the snapshot's first candidate
next_round_table_drop_first(full, w) == with_candidate_eliminated(full, 0)

\* full_table.with_candidate_eliminated(full_table.names.index(winner))
next_round_table(full, w) == with_candidate_eliminated(full, IndexOf(full.names, w))

\* The while loop of one round in automatic mode, as a function of the
\* working table: the winner or the ineligible candidate it ends with, or
\* asked when it comes to prompt the chooser (an unbreakable tie).
\* (A table is bound in a singleton set before it is passed on, so that it
\* is evaluated once.)
RECURSIVE automatic_round(_)
automatic_round(t) ==
    IF compute_winner(t) # NoName
    THEN [winner |-> compute_winner(t), found |-> FALSE, asked |-> FALSE]
    ELSE IF t.N_candidates = 1
    THEN [winner |-> t.names[1], found |-> TRUE, asked |-> FALSE]
    ELSE IF check_tied(t)
    THEN [winner |-> NoName, found |-> FALSE, asked |-> TRUE]
    ELSE CHOOSE res \in {automatic_round(u) :
                            u \in {with_candidate_eliminated(t, auto_loser_index(t))}} : TRUE

\* The for loop in automatic mode from a round on: t is the table the round
\* starts with, left the rounds still to run, rk and inel the two lists so
\* far; automatic_round_end is the part after the round's while loop, res
\* the outcome of that loop.
RECURSIVE automatic_rounds(_, _, _, _)
RECURSIVE automatic_round_end(_, _, _, _, _)
automatic_round_end(t, left, rk, inel, res) ==
    IF res.asked
    THEN [ranking |-> rk, ineligible_candidates |-> inel, asked |-> TRUE]
    ELSE IF left = 1
    THEN [ranking |-> round_ranking(res.found, rk, res.winner),
          ineligible_candidates |-> IF res.found THEN Append(inel, res.winner) ELSE inel,
          asked |-> FALSE]
    ELSE CHOOSE out \in {automatic_rounds(
                             u, left - 1,
                             round_ranking(res.found, rk, res.winner),
                             IF res.found THEN Append(inel, res.winner) ELSE inel) :
                            u \in {next_round_table(copy(t), res.winner)}} : TRUE

automatic_rounds(t, left, rk, inel) ==
    IF left = 0
    THEN [ranking |-> rk, ineligible_candidates |-> inel, asked |-> FALSE]
    ELSE CHOOSE out \in {automatic_round_end(t, left, rk, inel, res) :
                            res \in {automatic_round(t)}} : TRUE

\* instant_runoff(table, True) up to print_ranking, or to the first prompt
instant_runoff_automated(t) == automatic_rounds(t, t.N_candidates, << >>, << >>)

\* for rank in xrange(N): full_table = table.copy()
StartRound ==
    /\ pc = "for"
    /\ rank < N
    /\ full_table' = copy(table)
    /\ pc' = "while"
    /\ UNCHANGED <<vote_file, is_automated, table, ranking, ineligible_candidates,
                   N, rank, winner, unlucky_soul, ineligibility_found,
                   loser_index, output>>

\* winner = table.compute_winner(); else: break
FoundWinner ==
    /\ pc = "while"
    /\ compute_winner(table) # NoName
    /\ ineligibility_found' = FALSE
    /\ winner' = compute_winner(table)
    /\ pc' = "round_end"
    /\ UNCHANGED <<vote_file, is_automated, table, full_table, ranking,
                   ineligible_candidates, N, rank, unlucky_soul, loser_index,
                   output>>

\* winner is None and table.N_candidates == 1
FoundIneligible ==
    /\ pc = "while"
    /\ compute_winner(table) = NoName
    /\ table.N_candidates = 1
    /\ winner' = NoName
    /\ ineligibility_found' = TRUE
    /\ unlucky_soul' = table.names[1]
    /\ ineligible_candidates' = Append(ineligible_candidates, table.names[1])
    /\ pc' = "round_end"
    /\ UNCHANGED <<vote_file, is_automated, table, full_table, ranking, N, rank,
                   loser_index, output>>

\* automatic mode, no unbreakable tie: loser_index = 0, eliminate
AutoEliminate ==
    /\ pc = "while"
    /\ compute_winner(table) = NoName
    /\ table.N_candidates # 1
    /\ is_automated
    /\ ~check_tied(table)
    /\ winner' = NoName
    /\ ineligibility_found' = FALSE
    /\ loser_index' = auto_loser_index(table)
    /\ table' = with_candidate_eliminated(table, auto_loser_index(table))
    /\ pc' = "while"
    /\ UNCHANGED <<vote_file, is_automated, full_table, ranking,
                   ineligible_candidates, N, rank, unlucky_soul, output>>

\* manual mode, or an unbreakable tie: print_table() and block in input()
AskChooser ==
    /\ pc = "while"
    /\ compute_winner(table) = NoName
    /\ table.N_candidates # 1
    /\ (~is_automated \/ check_tied(table))
    /\ winner' = NoName
    /\ ineligibility_found' = FALSE
    /\ pc' = "input"
    /\ UNCHANGED <<vote_file, is_automated, table, full_table, ranking,
                   ineligible_candidates, N, rank, unlucky_soul, loser_index,
                   output>>

\* the elimination done in place on a table the snapshot is an alias of
ChooserAnswers_in_place ==
    /\ pc = "input"
    /\ \E i \in 0..(table.N_candidates - 1) :
          /\ loser_index' = i
          /\ table' = with_candidate_eliminated(table, i)
    /\ full_table' = table'
    /\ pc' = "while"
    /\ UNCHANGED <<vote_file, is_automated, ranking, ineligible_candidates, N,
                   rank, winner, unlucky_soul, ineligibility_found, output>>

\* input() returns an index of the roster; eliminate that candidate
ChooserAnswers ==
    /\ pc = "input"
    /\ \E i \in 0..(table.N_candidates - 1) :
          /\ loser_index' = i
          /\ table' = with_candidate_eliminated(table, i)
    /\ pc' = "while"
    /\ UNCHANGED <<vote_file, is_automated, full_table, ranking,
                   ineligible_candidates, N, rank, winner, unlucky_soul,
                   ineligibility_found, output>>

\* after the while loop: record the round's result, rebuild from the snapshot
EndRound ==
    /\ pc = "round_end"
    /\ winner' = round_winner(ineligibility_found, unlucky_soul, winner)
    /\ ranking' = round_ranking(ineligibility_found, ranking,
                                round_winner(ineligibility_found, unlucky_soul, winner))
    /\ table' = IF more_ranks(rank, N)
                THEN next_round_table(
                         full_table,
                         round_winner(ineligibility_found, unlucky_soul, winner))
                ELSE table
    /\ rank' = rank + 1
    /\ pc' = "for"
    /\ UNCHANGED <<vote_file, is_automated, full_table, ineligible_candidates, N,
                   unlucky_soul, ineligibility_found, loser_index, output>>

\* the for loop is exhausted: print_ranking(ranking, ineligible_candidates)
Finish ==
    /\ pc = "for"
    /\ rank = N
    /\ output' = print_ranking(ranking)
    /\ pc' = "done"
    /\ UNCHANGED <<vote_file, is_automated, table, full_table, ranking,
                   ineligible_candidates, N, rank, winner, unlucky_soul,
                   ineligibility_found, loser_index>>

Next ==
    \/ StartRound
    \/ FoundWinner
    \/ FoundIneligible
    \/ AutoEliminate
    \/ AskChooser
    \/ ChooserAnswers
    \/ EndRound
    \/ Finish

Spec == Init /\ [][Next]_vars

\* The program is sequential: the statement it stands at runs.  The one
\* step that waits, input(), is taken once the chooser answers, with an
\* index of the roster.
FairSpec == Init /\ [][Next]_vars /\ WF_vars(Next)

\* ------------------------------------------- answers outside the roster
\* input() evaluates whatever the chooser types: the integers around the
\* roster of n candidates that are no index 0..n-1 of it.
OutsideAnswers(n) == {i \in (-n - 1)..(n + 1) : i < 0 \/ i >= n}

\* The chooser answers with an integer outside the roster.  In manual mode
\* table.names[loser_index] is printed first and raises IndexError when the
\* answer is no index Python accepts; otherwise the slices of
\* with_candidate_eliminated take the answer as it is.  (An answer of -1
\* makes the roster longer; the rosters followed are those no longer than
\* the longest header.)
AnswerOutsideRoster ==
    /\ pc = "input"
    /\ \E i \in OutsideAnswers(table.N_candidates) :
          /\ Len(WithoutIndex(table.names, i)) <= Len(AllNames)
          /\ loser_index' = i
          /\ IF ~is_automated /\ PyIndexError(table.names, i)
             THEN /\ table' = table
                  /\ pc' = "IndexError"
             ELSE /\ table' = with_candidate_eliminated(table, i)
                  /\ pc' = "while"
    /\ UNCHANGED <<vote_file, is_automated, full_table, ranking,
                   ineligible_candidates, N, rank, winner, unlucky_soul,
                   ineligibility_found, output>>

NextAnyAnswer ==
    \/ StartRound
    \/ FoundWinner
    \/ FoundIneligible
    \/ AutoEliminate
    \/ AskChooser
    \/ ChooserAnswers
    \/ AnswerOutsideRoster
    \/ EndRound
    \/ Finish

SpecAnyAnswer == Init /\ [][NextAnyAnswer]_vars

\* ------------------------------------------- eliminations, on their own
\* An election of four candidates in which every candidate has one first
\* place, and B and D the same count vector.
WideFile ==
    [names |-> WideNames,
     lines |-> << <<1, 3, 0, 2>>, <<2, 1, 3, 0>>, <<0, 2, 1, 3>>, <<3, 0, 2, 1>> >>]

\* The ballot lines of the vote files of four candidates: every file of up
\* to MaxPathBallots dense lines, every one-line file with raw values up to
\* MaxRaw, and the election above.
PathLineLists ==
    UNION {[1..m -> DenseLines(Len(WideNames))] : m \in 1..MaxPathBallots}
    \cup [1..1 -> BallotLines(Len(WideNames), MaxRaw)]
    \cup {WideFile.lines}

\* A vote file of four candidates was read.
PathInit ==
    /\ \E ls \in PathLineLists :
          /\ vote_file = [names |-> WideNames, lines |-> ls]
          /\ table = read_votes([names |-> WideNames, lines |-> ls])
    /\ N = Len(WideNames)
    /\ full_table = table
    /\ is_automated = FALSE
    /\ ranking = << >>
    /\ ineligible_candidates = << >>
    /\ rank = 0
    /\ winner = NoName
    /\ unlucky_soul = NoName
    /\ ineligibility_found = FALSE
    /\ loser_index = 0
    /\ output = << >>
    /\ pc = "eliminate"

\* table = table.with_candidate_eliminated(index), at any index of a roster
\* of two or more candidates
Eliminate ==
    /\ pc = "eliminate"
    /\ table.N_candidates >= 2
    /\ \E i \in 0..(table.N_candidates - 1) :
          /\ loser_index' = i
          /\ table' = with_candidate_eliminated(table, i)
    /\ UNCHANGED <<vote_file, is_automated, full_table, ranking,
                   ineligible_candidates, N, rank, winner, unlucky_soul,
                   ineligibility_found, output, pc>>

PathSpec == PathInit /\ [][Eliminate]_vars

\* ------------------------------------------------------------------ properties
Range(s) == {s[i] : i \in 1..Len(s)}
Last(s) == s[Len(s)]

\* The number of ballots of t that give the candidate at place p the rank r,
\* counted on the ballots themselves.
RankCount(t, p, r) == Cardinality({b \in 1..Len(t.votes) : t.votes[b][p] = r})

\* More than half of all the ballots of t rank the candidate at place p first.
HasMajority(t, p) == 2 * RankCount(t, p, 1) > Len(t.votes)

ComputeWinnerOK(t, w) ==
    /\ (w # NoName) <=> (\E p \in 1..Len(t.names) : HasMajority(t, p))
    /\ (w # NoName) <=> HasMajority(t, Len(t.names))
    /\ w # NoName => w = t.names[Len(t.names)]
    /\ \A p \in 1..Len(t.names) : HasMajority(t, p) => t.names[p] = w

\* C1: compute_winner returns the name of the last candidate in sorted order
\* when that candidate is ranked first on strictly more than half of all the
\* ballots (ballots that abstain on every candidate count in the total), and
\* none otherwise; it returns a name iff some candidate of the roster has such
\* a majority, and the name is that candidate's.
C1_ComputeWinner ==
    /\ ComputeWinnerOK(table, compute_winner(table))
    /\ ComputeWinnerOK(full_table, compute_winner(full_table))

\* A winner was declared in a table of two or more candidates and ballots.
C1_Witness ==
    /\ pc = "round_end"
    /\ ~ineligibility_found
    /\ table.N_candidates >= 2
    /\ table.N_votes >= 2
    /\ winner = table.names[table.N_candidates]

\* C2: round isolation.  When round k+1 is about to start, the roster is the
\* roster of round k's snapshot minus the one candidate round k identified
\* (its winner or its ineligible candidate), whatever was eliminated inside
\* round k; equally, it is the header's roster minus the candidates
\* identified so far, one per round.
C2_RoundIsolation ==
    (pc = "for" /\ rank > 0 /\ rank < N) =>
        /\ winner \in Range(full_table.names)
        /\ Range(table.names) = Range(full_table.names) \ {winner}
        /\ Len(table.names) = Len(full_table.names) - 1
        /\ Len(full_table.names) = N - (rank - 1)
        /\ winner \in {Last(ranking \o ineligible_candidates),
                       Last(ineligible_candidates \o ranking)}
        /\ Range(table.names) =
              Range(vote_file.names) \ (Range(ranking) \cup Range(ineligible_candidates))
        /\ Len(ranking) + Len(ineligible_candidates) = rank

\* Round 1 of three candidates had the chooser eliminate a candidate other
\* than the weakest, found a winner, and round 2 is about to start.
C2_Witness ==
    /\ pc = "for"
    /\ rank = 1
    /\ N = 3
    /\ loser_index > 0
    /\ ~ineligibility_found
    /\ Len(table.names) = 2

\* C3: when instant_runoff finishes, every candidate of the header is in
\* exactly one of the ranking and the ineligible list, once.
C3_Partition ==
    pc = "done" =>
        /\ Cardinality(Range(ranking)) = Len(ranking)
        /\ Cardinality(Range(ineligible_candidates)) = Len(ineligible_candidates)
        /\ Range(ranking) \cap Range(ineligible_candidates) = {}
        /\ Range(ranking) \cup Range(ineligible_candidates) = Range(vote_file.names)
        /\ Len(ranking) + Len(ineligible_candidates) = N

\* A finished run of three candidates with both lists non-empty.
C3_Witness ==
    /\ pc = "done"
    /\ N = 3
    /\ Len(ranking) >= 1
    /\ Len(ineligible_candidates) >= 1

\* No line of the vote file abstains on any candidate.
NoAbstentions ==
    \A b \in 1..Len(vote_file.lines) :
        \A c \in 1..Len(vote_file.lines[b]) : vote_file.lines[b][c] # 0

\* C4: in automatic mode, on a vote file without abstentions, no candidate is
\* ever found ineligible, every candidate is ranked when the run finishes,
\* and a candidate is ranked only while more than half of the ballots of the
\* working table rank it first.  On the scenario (A, B, C and its five
\* ballots) the chooser is never consulted, the first place is decided in a
\* table of two candidates by more than 2 first-place votes, and the order
\* printed is A, B, C.
C4_AutomaticTotalOrder ==
    (is_automated /\ NoAbstentions) =>
        /\ ineligible_candidates = << >>
        /\ pc = "round_end" =>
              /\ ~ineligibility_found
              /\ winner = table.names[Len(table.names)]
              /\ HasMajority(table, Len(table.names))
        /\ pc = "done" =>
              /\ Len(ranking) = N
              /\ Range(ranking) = Range(vote_file.names)
        /\ vote_file = ScenarioFile =>
              /\ pc # "input"
              /\ (pc = "round_end" /\ rank = 0) =>
                    /\ Len(table.names) = 2
                    /\ RankCount(table, 2, 1) > 2
              /\ pc = "done" => ranking = <<"A", "B", "C">>

\* The scenario has run to its end in automatic mode.
C4_Witness ==
    /\ vote_file = ScenarioFile
    /\ is_automated
    /\ pc = "done"
    /\ Len(ranking) = 3
    /\ Len(output) = 3

\* u is t with the candidate at the 0-based index i eliminated.
EliminatedOK(t, i, u) ==
    /\ u.N_candidates = t.N_candidates - 1
    /\ Len(u.names) = Len(t.names) - 1
    /\ Len(u.counts) = Len(t.names) - 1
    /\ Range(u.names) = Range(t.names) \ {t.names[i + 1]}
    /\ u.N_votes = t.N_votes
    /\ Len(u.votes) = Len(t.votes)
    /\ \A b \in 1..Len(u.votes) :
          /\ Len(u.votes[b]) = Len(t.names) - 1
          /\ \A p \in 1..Len(u.votes[b]) :
                u.votes[b][p] = None \/ u.votes[b][p] \in 1..(Len(t.names) - 1)

EliminationsOK(t) ==
    Len(t.names) >= 2 =>
        \A i \in 0..(Len(t.names) - 1) :
            EliminatedOK(t, i, with_candidate_eliminated(t, i))

\* C5: for a table of two or more candidates and every index of its roster,
\* with_candidate_eliminated gives a table with one candidate fewer, the
\* roster without the candidate that was at the index, as many ballots as
\* before, and no rank above the new number of candidates.
\* (Every table of a run is the working table at the head of the while loop:
\* the snapshot is its copy, taken there.)
C5_Eliminate == pc = "while" => EliminationsOK(table)

\* The chooser had the middle one of three candidates eliminated, and a
\* ballot ranked a survivor third before that.
C5_Witness ==
    /\ pc = "while"
    /\ ~is_automated
    /\ Len(full_table.names) = 3
    /\ Len(table.names) = 2
    /\ loser_index = 1
    /\ \E b \in 1..Len(full_table.votes) : \E p \in 1..3 :
          /\ full_table.votes[b][p] = 3
          /\ full_table.names[p] \in Range(table.names)
    /\ \A b \in 1..Len(table.votes) : \A p \in 1..2 : table.votes[b][p] # 3

\* out is the dense rank order of list.
RankOrderOK(list, out) ==
    LET voted == {i \in 1..Len(list) : list[i] # None}
    IN  /\ Len(out) = Len(list)
        /\ \A i \in 1..Len(list) : (list[i] = None) <=> (out[i] = None)
        /\ {out[i] : i \in voted} = 1..Cardinality(voted)
        /\ \A i, j \in voted : i # j => out[i] # out[j]
        /\ \A i, j \in voted : (out[i] < out[j]) <=> (list[i] < list[j])

\* The ballots get_rank_order is given when the candidate at index i leaves t.
RowsRankedOK(t) ==
    \A b \in 1..Len(t.votes) : \A i \in 0..(Len(t.names) - 1) :
        RankOrderOK(WithoutIndex(t.votes[b], i),
                    get_rank_order(WithoutIndex(t.votes[b], i)))

\* C6: on a ballot whose values are pairwise different, get_rank_order keeps
\* the length and the abstained positions, gives the other positions the
\* ranks 1..k once each (k of them), in the order of their raw values:
\* [5,1,4] gives [3,1,2] and [none,2,1] gives [none,2,1].
\* It is checked on the lines of the vote file when they are read, and at the
\* head of the while loop on the ballots an elimination would leave.
C6_RankOrder ==
    /\ (pc = "for" /\ rank = 0) =>
          \A b \in 1..Len(vote_file.lines) :
              RankOrderOK(RawBallot(vote_file.lines[b]),
                          get_rank_order(RawBallot(vote_file.lines[b])))
    /\ pc = "while" => RowsRankedOK(table)
    /\ get_rank_order(<<5, 1, 4>>) = <<3, 1, 2>>
    /\ get_rank_order(<<None, 2, 1>>) = <<None, 2, 1>>

\* The file with the one line 5 1 4 was read: A is third, B first, C second.
C6_Witness ==
    /\ pc = "for"
    /\ rank = 0
    /\ vote_file.lines = << <<5, 1, 4>> >>
    /\ table.names = <<"A", "C", "B">>
    /\ table.votes = << <<3, 2, 1>> >>

\* a <= b in the lexicographic order of two count vectors of one length
LexLeq(a, b) ==
    \/ a = b
    \/ \E k \in 1..Len(a) : a[k] < b[k] /\ \A j \in 1..(k - 1) : a[j] = b[j]

\* The count vector of the candidate at place p, counted on the ballots of t.
CountVector(t, p) == [r \in 1..Len(t.names) |-> RankCount(t, p, r)]

\* The column of the vote file that belongs to the candidate named nm.
FileColumn(nm) == IndexOf(vote_file.names, nm) + 1

\* The dense rank the file's line gives the candidate of column col among the
\* candidates of the columns cols.
FileRank(line, col, cols) ==
    IF line[col] = 0 THEN None
    ELSE 1 + Cardinality({c \in cols : line[c] # 0 /\ line[c] < line[col]})

TableOrderedOK(t) ==
    /\ Cardinality(Range(t.names)) = Len(t.names)
    /\ Len(t.counts) = Len(t.names)
    /\ \A p \in 1..(Len(t.names) - 1) : LexLeq(t.counts[p], t.counts[p + 1])
    /\ \A p \in 1..Len(t.names) : RankCount(t, p, 1) <= RankCount(t, Len(t.names), 1)
    /\ \A p \in 1..Len(t.names) : t.counts[p] = CountVector(t, p)
    /\ \A b \in 1..Len(t.votes) : \A p \in 1..Len(t.names) :
          t.votes[b][p] = FileRank(vote_file.lines[b], FileColumn(t.names[p]),
                                   {FileColumn(t.names[q]) : q \in 1..Len(t.names)})

\* C7: in every table (constructed, copied, or left by eliminations) the
\* count vectors are non-decreasing in lexicographic order along the
\* candidate list, so the last candidate has the most first-place votes; and
\* names, counts and ballot columns move together: the counts at place p are
\* those of the column at place p, and that column holds, ballot by ballot,
\* the rank the vote file gives the candidate named at place p among the
\* candidates of the roster.
C7_SortedAndAligned ==
    /\ TableOrderedOK(table)
    /\ TableOrderedOK(full_table)

\* After an elimination the two candidates left stand against the order of
\* their names, with different count vectors.
C7_Witness ==
    /\ pc = "while"
    /\ Len(full_table.names) = 3
    /\ Len(table.names) = 2
    /\ NameLess(table.names[2], table.names[1])
    /\ table.counts[1] # table.counts[2]
    /\ table.names # SubSeq(full_table.names, 2, 3)

CheckTiedOK(t) ==
    Len(t.names) >= 2 =>
        (check_tied(t) <=>
            /\ CountVector(t, Len(t.names)) = CountVector(t, Len(t.names) - 1)
            /\ \E r \in 1..Len(t.names) : CountVector(t, Len(t.names))[r] # 0)

\* C8: for a table of two or more candidates, check_tied is true exactly when
\* the count vectors of the last two candidates are equal and not all zero.
C8_CheckTied ==
    /\ CheckTiedOK(table)
    /\ CheckTiedOK(full_table)

\* Automatic mode met a tie of the two strongest of three candidates and
\* waits for the chooser.
C8_Witness ==
    /\ is_automated
    /\ pc = "input"
    /\ Len(table.names) = 3
    /\ table.counts[3] = table.counts[2]
    /\ table.counts[3] # table.counts[1]

\* C9: in automatic mode, when the working table has no winner and more than
\* one candidate and check_tied is false, the next step eliminates the
\* candidate at index 0 and does not wait for the chooser; the run comes to
\* wait for the chooser only with a table on which check_tied is true.
C9_AutomaticChoice ==
    [][is_automated =>
        /\ ( /\ pc = "while"
             /\ compute_winner(table) = NoName
             /\ Len(table.names) > 1
             /\ ~check_tied(table) ) =>
                /\ pc' = "while"
                /\ loser_index' = 0
                /\ Len(table'.names) = Len(table.names) - 1
                /\ Range(table'.names) = Range(table.names) \ {table.names[1]}
        /\ pc' = "input" =>
                /\ check_tied(table')
                /\ table' = table]_vars

\* Automatic mode has just dropped the weakest of three candidates, which
\* were not tied.
C9_Witness ==
    /\ is_automated
    /\ pc = "while"
    /\ Len(full_table.names) = 3
    /\ ~check_tied(full_table)
    /\ compute_winner(full_table) = NoName
    /\ loser_index = 0
    /\ table.names = SubSeq(full_table.names, 2, 3)

\* C10: a round that ends with one candidate and no winner records that
\* candidate as ineligible: it is the last entry of the ineligible list, it
\* is not in the ranking then or at any later time, the round adds nothing to
\* the ranking, and it is the candidate taken out of the round's snapshot to
\* form the next round's roster.
C10_Ineligible ==
    /\ Range(ranking) \cap Range(ineligible_candidates) = {}
    /\ pc = "round_end" =>
          /\ ineligibility_found <=> compute_winner(table) = NoName
          /\ ineligibility_found =>
                /\ Len(table.names) = 1
                /\ ~HasMajority(table, 1)
                /\ unlucky_soul = table.names[1]
                /\ Last(ineligible_candidates) = unlucky_soul
                /\ unlucky_soul \in Range(full_table.names)
                /\ Len(ranking) + Len(ineligible_candidates) = rank + 1
    /\ (pc = "for" /\ rank > 0 /\ ineligibility_found) =>
          /\ winner = unlucky_soul
          /\ Last(ineligible_candidates) = unlucky_soul
          /\ Len(ranking) + Len(ineligible_candidates) = rank
          /\ rank < N =>
                /\ unlucky_soul \in Range(full_table.names)
                /\ Range(table.names) = Range(full_table.names) \ {unlucky_soul}

\* Round 1 of three candidates ended with an ineligible candidate and round 2
\* is about to start with the other two.
C10_Witness ==
    /\ pc = "for"
    /\ rank = 1
    /\ N = 3
    /\ ineligibility_found
    /\ ineligible_candidates = <<unlucky_soul>>
    /\ Len(table.names) = 2

\* C11: the winner of the round for rank position p (the position the driver
\* announces, rank+1) is printed with place p: when a round ends with a
\* winner, the ranking that will be printed lists that winner at the place
\* named after the round's number.
C11_PlaceIsRound ==
    (pc = "round_end" /\ ~ineligibility_found) =>
        \E i \in 1..Len(print_ranking(round_ranking(FALSE, ranking, winner))) :
            /\ print_ranking(round_ranking(FALSE, ranking, winner))[i].candidate = winner
            /\ print_ranking(round_ranking(FALSE, ranking, winner))[i].place
                  = PLACES[announced_rank(rank)]

\* C12: an answer of the chooser outside the roster (negative, or at least
\* the number of candidates) is rejected with an error and eliminates
\* nothing: the step that takes such an answer ends in the error and leaves
\* the working table as it was.
C12_OutsideAnswerRejected ==
    [][(/\ pc = "input"
        /\ pc' # "input"
        /\ (loser_index' < 0 \/ loser_index' >= table.N_candidates))
          => (pc' = "IndexError" /\ table' = table)]_vars

\* t is a table on which the three operations return, at every index of its
\* roster.
OperationsReturn(t) ==
    /\ ~compute_winner_raises(t)
    /\ ~check_tied_raises(t)
    /\ \A i \in 0..(t.N_candidates - 1) : ~with_candidate_eliminated_raises(t, i)

\* C13: compute_winner, check_tied and with_candidate_eliminated return, and
\* raise nothing, on every table of one or more candidates and one or more
\* ballots and at every index of its roster, a roster of a single candidate
\* included.
C13_Total ==
    /\ OperationsReturn(table)
    /\ OperationsReturn(full_table)

\* C14: copy and with_candidate_eliminated leave the table they are called
\* on as it was.  Taking the snapshot leaves the working table unchanged,
\* and from then on no step of the round (the eliminations made on the
\* working table, the end of the round that builds the next round's table
\* from the snapshot) changes the snapshot's names, ballots, counts,
\* candidate count or ballot count.
C14_SnapshotUnchanged ==
    [][/\ (pc = "for" /\ pc' = "while") => table' = table
       /\ pc # "for" =>
             /\ full_table'.names = full_table.names
             /\ full_table'.votes = full_table.votes
             /\ full_table'.counts = full_table.counts
             /\ full_table'.N_candidates = full_table.N_candidates
             /\ full_table'.N_votes = full_table.N_votes]_vars

\* The second round of three candidates ends after an elimination was made
\* on a table derived from its snapshot, itself derived from round 1's.
C14_Witness ==
    /\ pc = "round_end"
    /\ N = 3
    /\ rank = 1
    /\ Len(full_table.names) = 2
    /\ Len(table.names) = 1

\* copy() of t has the state of t (its names, ballots, counts and the two
\* sizes are the fields of the record), and building it changed nothing:
\* the ballots of t are dense already, and the tally of t sorts into the
\* order t has.
CopyIdenticalOK(t) ==
    /\ copy(t) = t
    /\ reduce_ranks(t.votes) = t.votes
    /\ update_counts(t.votes, t.names).names = t.names

\* C15: copy() returns a table with the state of the table copied (candidate
\* order, normalized ballots, count vectors), because normalizing a dense
\* ballot and re-tallying a sorted table change nothing; so the snapshot
\* taken at the start of a round is the working table, until an elimination
\* shortens the latter.
\* (Every table of a run is the working table at the head of the while loop.)
C15_CopyIdentical ==
    pc = "while" =>
        /\ CopyIdenticalOK(table)
        /\ Len(table.names) = Len(full_table.names) => full_table = table

\* The snapshot of round 2 was just taken, of a table of two candidates
\* that stand against the order of their names and have a ballot ranking
\* both.
C15_Witness ==
    /\ pc = "while"
    /\ rank = 1
    /\ Len(table.names) = 2
    /\ full_table = table
    /\ NameLess(table.names[2], table.names[1])
    /\ \E b \in 1..Len(table.votes) : table.votes[b] = <<2, 1>>

\* The vote file with its ballot lines listed in the order order[1], ...
ReorderedFile(file, order) ==
    [names |-> file.names,
     lines |-> [b \in 1..Len(file.lines) |-> file.lines[order[b]]]]

\* The automatic run on the reordered file prompts the chooser, or ends with
\* the two lists rk and inel.
SameOutcome(file, order, rk, inel) ==
    \/ instant_runoff_automated(read_votes(ReorderedFile(file, order))).asked
    \/ /\ instant_runoff_automated(read_votes(ReorderedFile(file, order))).ranking = rk
       /\ instant_runoff_automated(read_votes(ReorderedFile(file, order))).ineligible_candidates
             = inel

\* C16: in automatic mode the order in which the ballots are listed does not
\* matter: when a run that never consulted the chooser is done, the run on
\* the same ballots in any other order, if it does not consult the chooser
\* either, ends with the same ranking and the same ineligible list.
C16_BallotOrderIrrelevant ==
    (/\ pc = "done"
     /\ is_automated
     /\ ~instant_runoff_automated(read_votes(vote_file)).asked) =>
        \A order \in Permutations(1..Len(vote_file.lines)) :
            SameOutcome(vote_file, order, ranking, ineligible_candidates)

\* C17: instant_runoff terminates: it reaches the end (print_ranking) and is
\* there after exactly N rounds, each of which identified one candidate.
\* Inside a round that started with m candidates (the snapshot's) the
\* working table keeps between 1 and m candidates, every elimination takes
\* exactly one candidate from it, so at most m-1 eliminations are made
\* before the round ends.
C17_Termination ==
    /\ <>(pc = "done")
    /\ [](pc = "done" =>
            /\ rank = N
            /\ Len(ranking) + Len(ineligible_candidates) = N)
    /\ [](pc \in {"while", "input", "round_end"} =>
            /\ full_table.N_candidates = N - rank
            /\ table.N_candidates >= 1
            /\ full_table.N_candidates - table.N_candidates
                  \in 0..(full_table.N_candidates - 1))
    /\ [][(pc \in {"while", "input"} /\ pc' = "while") =>
              /\ table'.N_candidates = table.N_candidates - 1
              /\ Len(table'.names) = Len(table.names) - 1]_vars

\* A run of three candidates is done, and its last elimination was made by
\* the chooser.
C17_Witness ==
    /\ pc = "done"
    /\ N = 3
    /\ rank = 3
    /\ ~is_automated
    /\ loser_index > 0

\* The number of lines of the vote file that do not abstain on the candidate
\* of column c.
NonAbstained(c) ==
    Cardinality({b \in 1..Len(vote_file.lines) : vote_file.lines[b][c] # 0})

\* More than half of all the ballots give the candidate of column c a rank.
RankedByMajority(c) == 2 * NonAbstained(c) > Len(vote_file.lines)

\* C18: the split between the ranking and the ineligible list is fixed by
\* the ballots, whatever the chooser answers: a candidate is only ever put
\* in the ranking if more than half of all the ballots do not abstain on it,
\* and in the ineligible list if at most half do not; when the run is done
\* each candidate is in the one or the other accordingly.
C18_SplitFixedByBallots ==
    \A c \in 1..Len(vote_file.names) :
        /\ vote_file.names[c] \in Range(ranking) => RankedByMajority(c)
        /\ vote_file.names[c] \in Range(ineligible_candidates) => ~RankedByMajority(c)
        /\ pc = "done" =>
              /\ vote_file.names[c] \in Range(ranking) <=> RankedByMajority(c)
              /\ vote_file.names[c] \in Range(ineligible_candidates)
                    <=> ~RankedByMajority(c)

\* A manual run of three candidates is done with both lists non-empty; one
\* ineligible candidate has a rank on exactly half of the ballots, and the
\* chooser eliminated a candidate other than the weakest.
C18_Witness ==
    /\ pc = "done"
    /\ ~is_automated
    /\ N = 3
    /\ loser_index > 0
    /\ Len(ranking) >= 1
    /\ \E c \in 1..3 :
          /\ NonAbstained(c) > 0
          /\ 2 * NonAbstained(c) = Len(vote_file.lines)
          /\ vote_file.names[c] \in Range(ineligible_candidates)

\* t with the candidate named nm eliminated.
EliminateName(t, nm) == with_candidate_eliminated(t, IndexOf(t.names, nm))

\* The columns of the vote file of the candidates named in keep, in the
\* order of the header.
KeptColumns(keep) ==
    [p \in 1..Cardinality({c \in 1..Len(vote_file.names) : vote_file.names[c] \in keep}) |->
        CHOOSE c \in 1..Len(vote_file.names) :
            /\ vote_file.names[c] \in keep
            /\ Cardinality({d \in 1..(c - 1) : vote_file.names[d] \in keep}) = p - 1]

\* The table built from the raw ballots of the vote file restricted to the
\* candidates named in keep.
DirectTable(keep) ==
    CHOOSE t \in {read_votes([names |-> [p \in 1..Len(cols) |-> vote_file.names[cols[p]]],
                              lines |-> [b \in 1..Len(vote_file.lines) |->
                                           [p \in 1..Len(cols) |->
                                               vote_file.lines[b][cols[p]]]]]) :
                    cols \in {KeptColumns(keep)}} : TRUE

\* C19: elimination is path independent.  For every table reached by
\* eliminations that has three or more candidates (so that both
\* eliminations return) and every two candidates a, b of it, eliminating a
\* then b gives the table that eliminating b then a gives (names in order,
\* ballots, counts), and that table is the one built from the raw ballots of
\* the vote file restricted to the candidates left; so is every table
\* reached.
C19_PathIndependent ==
    /\ table = DirectTable(Range(table.names))
    /\ Len(table.names) >= 3 =>
          \A a, b \in Range(table.names) :
              NameLess(a, b) =>
                \A ab \in {EliminateName(EliminateName(table, a), b)} :
                    /\ ab = EliminateName(EliminateName(table, b), a)
                    /\ ab = DirectTable(Range(table.names) \ {a, b})

\* Two of four candidates were eliminated, the second other than the
\* weakest; the two left stand against the order of their names and a
\* ballot of the file ranked one of them third or lower.
C19_Witness ==
    /\ pc = "eliminate"
    /\ Len(vote_file.names) = 4
    /\ Len(table.names) = 2
    /\ loser_index > 0
    /\ NameLess(table.names[2], table.names[1])
    /\ \E b \in 1..Len(vote_file.lines) : \E c \in 1..4 :
          /\ vote_file.names[c] \in Range(table.names)
          /\ vote_file.lines[b][c] >= 3

\* C20: the driver keeps to the rosters on which the operations return.
\* Where it calls check_tied (automatic mode, no winner, not a single
\* candidate) the working table has two or more candidates; where it calls
\* with_candidate_eliminated (on the working table in the while loop, for
\* any index the chooser may answer, and on the snapshot after a round that
\* is not the last) the table has two or more candidates and the call
\* returns; and the snapshot of round k = rank+1 has N-k+1 candidates.
C20_DriverKeepsToRosters ==
    /\ table.N_candidates >= 1
    /\ (pc = "while" /\ compute_winner(table) = NoName /\ table.N_candidates # 1) =>
          /\ table.N_candidates >= 2
          /\ ~check_tied_raises(table)
          /\ ~with_candidate_eliminated_raises(table, auto_loser_index(table))
    /\ pc = "input" =>
          /\ table.N_candidates >= 2
          /\ \A i \in 0..(table.N_candidates - 1) :
                ~with_candidate_eliminated_raises(table, i)
    /\ (pc = "round_end" /\ more_ranks(rank, N)) =>
          /\ full_table.N_candidates >= 2
          /\ ~with_candidate_eliminated_raises(
                 full_table,
                 IndexOf(full_table.names,
                         round_winner(ineligibility_found, unlucky_soul, winner)))
    /\ pc \in {"while", "input", "round_end"} =>
          full_table.N_candidates = N - (rank + 1) + 1

\* The last round of three has ended: its snapshot holds a single
\* candidate, and no table is built from it.
C20_Witness ==
    /\ pc = "round_end"
    /\ N = 3
    /\ rank = N - 1
    /\ ~more_ranks(rank, N)
    /\ full_table.N_candidates = 1

====
